---------------------------- MODULE Spec2Model ----------------------------
(***************************************************************************)
(* Model of CreateDonutAlgorithm (createDonut.py): one run of the feature  *)
(* based algorithm, from prepareAlgorithm over the processFeature calls to *)
(* postProcessAlgorithm.                                                   *)
(*                                                                         *)
(* Numbers.  Radii and coordinates are integers (radius in the chosen      *)
(* unit, coordinates in degrees).  The azimuth of the ring loop is a       *)
(* Python float: it is modelled bit-exactly as an IEEE-754 double, held as *)
(* three limbs <<ip, f1, f0>> with value ip + f1/2^24 + f0/2^48.  Every    *)
(* double met by the loop (360.0/segments >= 16 and its running sums       *)
(* below 512) is a multiple of 2^-48, so the representation is exact for   *)
(* 4 <= segments <= 22.                                                    *)
(***************************************************************************)
EXTENDS Integers, Sequences, FiniteSets, TLC

VARIABLES state, parameters, self, log, errors, info

vars == <<state, parameters, self, log, errors, info>>

-----------------------------------------------------------------------------
(* Bounds of the model *)

MaxFeatures == 2

-----------------------------------------------------------------------------
(* IEEE-754 double arithmetic of `360.0 / segments` and `angle += pt_spacing` *)

B == 2^24

FZero == <<0, 0, 0>>

\* number of low bits of f0 that do not fit the 53-bit significand
DropBits(ip) ==
    IF ip < 32 THEN 0 ELSE IF ip < 64 THEN 1 ELSE IF ip < 128 THEN 2
    ELSE IF ip < 256 THEN 3 ELSE 4

\* round-to-nearest-even of ip + f1/2^24 + f0/2^48 + tail, tail being
\* 0: nothing, 1: below half a unit of 2^-48, 2: exactly half, 3: above half
FRound(ip, f1, f0, t) ==
    LET d    == DropBits(ip)
        step == 2^d
        rem  == f0 % step
        odd  == ((f0 \div step) % 2) = 1
        up   == IF d = 0
                THEN t = 3 \/ (t = 2 /\ odd)
                ELSE \/ 2 * rem > step
                     \/ 2 * rem = step /\ t > 0
                     \/ 2 * rem = step /\ t = 0 /\ odd
        g0   == (f0 - rem) + (IF up THEN step ELSE 0)
        g1   == f1 + (g0 \div B)
    IN  <<ip + (g1 \div B), g1 % B, g0 % B>>

\* 360.0 / n
FDiv360(n) ==
    LET r0 == 360 % n
        r1 == (r0 * B) % n
        r2 == (r1 * B) % n
        t  == IF r2 = 0 THEN 0 ELSE IF 2 * r2 < n THEN 1
              ELSE IF 2 * r2 = n THEN 2 ELSE 3
    IN  FRound(360 \div n, (r0 * B) \div n, (r1 * B) \div n, t)

\* a + b
FAdd(a, b) ==
    LET s0 == a[3] + b[3]
        s1 == a[2] + b[2] + (s0 \div B)
        s2 == a[1] + b[1] + (s1 \div B)
    IN  FRound(s2, s1 % B, s0 % B, 0)

\* a < 360
FLess360(a) == a[1] < 360

-----------------------------------------------------------------------------
(* Collaborators: unit table, property evaluation, transforms, geodesic     *)

\* utils.conversionToMeters: unit 0 is kilometres, unit 1 is metres
conversionToMeters(units) == IF units = 0 THEN 1000 ELSE 1

\* An attribute value is <<>> (NULL / not a number) or <<n>>.
\* QgsProperty.valueAsDouble(context, default) of a property bound to a field
valueAsDouble(attr, default) ==
    IF Len(attr) = 0 THEN <<default, FALSE>> ELSE <<attr[1], TRUE>>

\* the layer CRS counts two units per degree when it is not EPSG:4326
geom_to_4326_transform(pt) == <<pt[1] \div 2, pt[2] \div 2>>

to_sink_crs_transform(pt) == <<2 * pt[1], 2 * pt[2]>>

WrapLon(x) == ((x + 180) % 360) - 180

\* 90 * sin(a) for whole degrees a, as a triangle wave
Tri(a) == IF a <= 90 THEN a ELSE IF a <= 270 THEN 180 - a ELSE a - 360

\* geod.Direct(lat, lon, angle, rad): destination <<lon2, lat2>>, lon2 in
\* [-180, 180); 100 km of distance to the degree
Direct(lat, lon, angle, rad) ==
    LET a   == angle[1] % 360
        arc == rad \div 100000
        dx  == (arc * Tri(a)) \div 90
        dy  == (arc * Tri((a + 90) % 360)) \div 90
    IN  <<WrapLon(lon + dx), lat + dy>>

\* utils.hasIdlCrossing
hasIdlCrossing(pts) ==
    \E i \in 1..(Len(pts) - 1) :
        \/ pts[i + 1][1] - pts[i][1] > 180
        \/ pts[i][1] - pts[i + 1][1] > 180

\* utils.makeIdlCrossingsPositive(pts, True)
makeIdlCrossingsPositive(pts) ==
    [i \in 1..Len(pts) |->
        IF pts[i][1] < 0 THEN <<pts[i][1] + 360, pts[i][2]>> ELSE pts[i]]

-----------------------------------------------------------------------------
(* Inputs of a run *)

\* the INPUT source: whether its CRS is EPSG:4326, and its featureCount()
SourceChoices == [is4326 : BOOLEAN, featureCount : 0..MaxFeatures]

\* the parameter dictionary handed to prepareAlgorithm; a radius is a fixed
\* number (dyn = FALSE) or a property bound to a field (dyn = TRUE), then
\* value is what parameterAsDouble yields for it
ParameterChoices ==
    [INPUT               : SourceChoices,
     ShapeType           : {0, 1},
     OuterRadius         : [dyn : BOOLEAN, value : {-5, 0, 2000}],
     InnerRadius         : [dyn : BOOLEAN, value : {0, 3000}],
     UnitsOfMeasure      : {0, 1},
     DrawingSegments     : {4, 13},
     ExportInputGeometry : BOOLEAN]

Centers == {<<155, 0>>, <<170, 0>>}

\* a feature: its geometry (a point, or something asPoint() rejects) and its
\* attributes <<outer radius field, inner radius field>>
FeatureChoices ==
    {[pt |-> c, isPoint |-> TRUE, attrs |-> << <<2000>>, <<1000>> >>] : c \in Centers}
    \cup
    {[pt |-> <<0, 0>>, isPoint |-> TRUE, attrs |-> a] :
        a \in { << <<>>, <<1000>> >>, << <<2000>>, <<>> >>,
                << <<0>>, <<1000>> >>, << <<2000>>, <<0>> >> }}
    \cup
    {[pt |-> <<0, 0>>, isPoint |-> FALSE, attrs |-> << <<2000>>, <<1000>> >>]}

-----------------------------------------------------------------------------
(* CreateDonutAlgorithm *)

\* fields a run reads before prepareAlgorithm has set them hold 0 / FALSE
Init ==
    /\ state = "Configured"
    /\ parameters = <<>>
    /\ self = [shape_type |-> 0, export_geom |-> FALSE,
               outer_radius |-> 0, outer_radius_dyn |-> FALSE,
               inner_radius |-> 0, inner_radius_dyn |-> FALSE,
               measure_factor |-> 0,
               inner_radius_converted |-> 0, outer_radius_converted |-> 0,
               pt_spacing |-> FZero, total_features |-> 0,
               geom_to_4326 |-> FALSE, to_sink_crs |-> FALSE, num_bad |-> 0]
    /\ log = <<>>
    /\ errors = <<>>
    /\ info = <<>>

\* faulty variant: the fixed outer radius 0 passes the configuration check
OuterRadiusRejected_Negative(outer_radius) == outer_radius < 0

\* line 151: `if self.outer_radius <= 0`
OuterRadiusRejected(outer_radius) == outer_radius <= 0

prepareAlgorithm(p) ==
    /\ state = "Configured"
    /\ parameters' = <<p>>
    /\ IF OuterRadiusRejected(p.OuterRadius.value)
       THEN /\ self' = [self EXCEPT !.shape_type = p.ShapeType,
                                    !.outer_radius = p.OuterRadius.value]
            /\ errors' = Append(errors, "Outer radius parameter must be greater than 0")
            /\ state' = "Aborted"
       ELSE /\ self' = [shape_type |-> p.ShapeType,
                        outer_radius |-> p.OuterRadius.value,
                        outer_radius_dyn |-> p.OuterRadius.dyn,
                        inner_radius |-> p.InnerRadius.value,
                        inner_radius_dyn |-> p.InnerRadius.dyn,
                        export_geom |-> p.ExportInputGeometry,
                        measure_factor |-> conversionToMeters(p.UnitsOfMeasure),
                        inner_radius_converted |->
                            p.InnerRadius.value * conversionToMeters(p.UnitsOfMeasure),
                        outer_radius_converted |->
                            p.OuterRadius.value * conversionToMeters(p.UnitsOfMeasure),
                        pt_spacing |-> FDiv360(p.DrawingSegments),
                        total_features |-> p.INPUT.featureCount,
                        geom_to_4326 |-> ~p.INPUT.is4326,
                        to_sink_crs |-> ~p.INPUT.is4326,
                        num_bad |-> 0]
            /\ errors' = errors
            /\ state' = "Ready"
    /\ UNCHANGED <<log, info>>

\* the azimuths visited by `while angle < 360: ... angle += self.pt_spacing`
RECURSIVE AngleLoop(_, _, _)
AngleLoop(angle, pt_spacing, acc) ==
    IF FLess360(angle)
    THEN AngleLoop(FAdd(angle, pt_spacing), pt_spacing, Append(acc, angle))
    ELSE acc

\* the points collected by the loop for one radius, then closed with
\* `pts.append(pts[0])`
Ring(lat, lon, rad, angles) ==
    LET pts == [i \in 1..Len(angles) |-> Direct(lat, lon, angles[i], rad)]
    IN  Append(pts, pts[1])

TransformAll(pts) == [i \in 1..Len(pts) |-> to_sink_crs_transform(pts[i])]

\* faulty variant: a dropped feature is not counted
Skipped_NotCounted == [out |-> <<>>, bad |-> 0]

\* `self.num_bad += 1; return []`
Skipped == [out |-> <<>>, bad |-> 1]

\* faulty variant: the inner ring is put into the geometry even when it is empty
MakeGeometry_AlwaysTwo(shape_type, inner_rad, pts_out, pts_in) ==
    [type  |-> IF shape_type = 0 THEN "Polygon" ELSE "MultiLineString",
     rings |-> <<pts_out, pts_in>>]

\* lines 237-246: fromPolygonXY / fromMultiPolylineXY of one or two rings
MakeGeometry(shape_type, inner_rad, pts_out, pts_in) ==
    [type  |-> IF shape_type = 0 THEN "Polygon" ELSE "MultiLineString",
     rings |-> IF inner_rad = 0 THEN <<pts_out>> ELSE <<pts_out, pts_in>>]

\* faulty variant: the coordinates are read after the transform to EPSG:4326
OrigPoint_AfterTransform(feature, pt) == pt

\* lines 189-190: pt_orig_x, pt_orig_y are read before `pt` is transformed
OrigPoint(feature, pt) == feature.pt

\* lines 212-255: rings, antimeridian, sink CRS, geometry, attributes
BuildFeature(me, feature, pt, inner_rad, outer_rad) ==
    LET lat  == pt[2]
        lon  == pt[1]
        angles == AngleLoop(FZero, me.pt_spacing, <<>>)
        in0  == IF inner_rad # 0 THEN Ring(lat, lon, inner_rad, angles) ELSE <<>>
        out0 == Ring(lat, lon, outer_rad, angles)
        crosses_idl == hasIdlCrossing(out0)
        in1  == IF crosses_idl /\ inner_rad # 0 THEN makeIdlCrossingsPositive(in0) ELSE in0
        out1 == IF crosses_idl THEN makeIdlCrossingsPositive(out0) ELSE out0
        pts_in  == IF me.to_sink_crs /\ inner_rad # 0 THEN TransformAll(in1) ELSE in1
        pts_out == IF me.to_sink_crs THEN TransformAll(out1) ELSE out1
        geometry == MakeGeometry(me.shape_type, inner_rad, pts_out, pts_in)
        pt_orig  == OrigPoint(feature, pt)
        attr == IF me.export_geom
                THEN feature.attrs \o << <<pt_orig[1]>>, <<pt_orig[2]>> >>
                ELSE feature.attrs
    IN  [out |-> << [geometry |-> geometry, attrs |-> attr] >>, bad |-> 0]

\* faulty variant: a resolved outer radius of 0 is let through
ResolveOuter_ZeroAllowed(me, feature, pt, inner_rad) ==
    IF me.outer_radius_dyn
    THEN LET r == valueAsDouble(feature.attrs[1], me.outer_radius)
             outer_rad == r[1] * me.measure_factor
         IN  IF ~r[2] \/ outer_rad < 0
             THEN Skipped
             ELSE BuildFeature(me, feature, pt, inner_rad, outer_rad)
    ELSE BuildFeature(me, feature, pt, inner_rad, me.outer_radius_converted)

\* faulty variant: an inner radius that is not below the outer radius is an error
ResolveOuter_Strict(me, feature, pt, inner_rad) ==
    LET r == IF me.outer_radius_dyn
             THEN valueAsDouble(feature.attrs[1], me.outer_radius)
             ELSE <<me.outer_radius, TRUE>>
        outer_rad == r[1] * me.measure_factor
    IN  IF ~r[2] \/ outer_rad <= 0 \/ inner_rad >= outer_rad
        THEN Skipped
        ELSE BuildFeature(me, feature, pt, inner_rad, outer_rad)

\* lines 204-211: the outer radius, then the rest
ResolveOuter(me, feature, pt, inner_rad) ==
    IF me.outer_radius_dyn
    THEN LET r == valueAsDouble(feature.attrs[1], me.outer_radius)
             outer_rad == r[1] * me.measure_factor
         IN  IF ~r[2] \/ outer_rad <= 0
             THEN Skipped
             ELSE BuildFeature(me, feature, pt, inner_rad, outer_rad)
    ELSE BuildFeature(me, feature, pt, inner_rad, me.outer_radius_converted)

\* the whole of processFeature: what it returns and what it adds to num_bad
ProcessFeature(me, feature) ==
    IF ~feature.isPoint
    THEN Skipped   \* asPoint() raises, caught by `except Exception`
    ELSE LET pt == IF me.geom_to_4326 THEN geom_to_4326_transform(feature.pt)
                   ELSE feature.pt
         IN  IF me.inner_radius_dyn
             THEN LET r == valueAsDouble(feature.attrs[2], me.inner_radius)
                  IN  IF ~r[2]
                      THEN Skipped
                      ELSE ResolveOuter(me, feature, pt, r[1] * me.measure_factor)
             ELSE ResolveOuter(me, feature, pt, me.inner_radius_converted)

\* faulty variant: the fixed radius is converted to metres again at every feature
processFeature_Reconverting(feature) ==
    /\ state = "Ready"
    /\ Len(log) < self.total_features
    /\ LET r == ProcessFeature(self, feature)
       IN  /\ self' = [self EXCEPT !.num_bad = @ + r.bad,
                                    !.outer_radius_converted = @ * self.measure_factor]
           /\ log' = Append(log, [input |-> feature, output |-> r.out])
    /\ UNCHANGED <<state, parameters, errors, info>>

processFeature(feature) ==
    /\ state = "Ready"
    /\ Len(log) < self.total_features
    /\ LET r == ProcessFeature(self, feature)
       IN  /\ self' = [self EXCEPT !.num_bad = @ + r.bad]
           /\ log' = Append(log, [input |-> feature, output |-> r.out])
    /\ UNCHANGED <<state, parameters, errors, info>>

\* faulty variant: the summary counts the emitted features as the total
postProcessAlgorithm_EmittedAsTotal ==
    /\ state = "Ready"
    /\ Len(log) = self.total_features
    /\ info' = IF self.num_bad # 0
               THEN Append(info, <<self.num_bad, self.total_features - self.num_bad>>)
               ELSE info
    /\ state' = "Completed"
    /\ UNCHANGED <<parameters, self, log, errors>>

postProcessAlgorithm ==
    /\ state = "Ready"
    /\ Len(log) = self.total_features
    /\ info' = IF self.num_bad # 0
               THEN Append(info, <<self.num_bad, self.total_features>>)
               ELSE info
    /\ state' = "Completed"
    /\ UNCHANGED <<parameters, self, log, errors>>

\* the framework calls prepareAlgorithm once, then processFeature for every
\* feature of the source, then postProcessAlgorithm
Next ==
    \/ state = "Configured" /\ \E p \in ParameterChoices : prepareAlgorithm(p)
    \/ \E feature \in FeatureChoices : processFeature(feature)
    \/ postProcessAlgorithm

Spec == Init /\ [][Next]_vars

-----------------------------------------------------------------------------
(* Vocabulary of the properties *)

Cfg == parameters[1]

Passed == state \in {"Ready", "Completed"}

Emitted(i) == Len(log[i].output) = 1

EmittedSet == {i \in DOMAIN log : Emitted(i)}

SkippedSet == {i \in DOMAIN log : ~Emitted(i)}

Geometry(i) == log[i].output[1].geometry

FieldIsNull(a) == Len(a) = 0

\* the radius of a feature in metres, as the run's parameters define it
InnerRadOf(f) ==
    (IF Cfg.InnerRadius.dyn THEN f.attrs[2][1] ELSE Cfg.InnerRadius.value)
        * self.measure_factor

OuterRadOf(f) ==
    (IF Cfg.OuterRadius.dyn THEN f.attrs[1][1] ELSE Cfg.OuterRadius.value)
        * self.measure_factor

InnerFails(f) == Cfg.InnerRadius.dyn /\ FieldIsNull(f.attrs[2])

OuterFails(f) ==
    Cfg.OuterRadius.dyn /\ (FieldIsNull(f.attrs[1]) \/ OuterRadOf(f) <= 0)

\* the centre of a feature in EPSG:4326
CenterOf(f) == IF Cfg.INPUT.is4326 THEN f.pt ELSE geom_to_4326_transform(f.pt)

\* the ring of radius rad around f as it is expected in the output: closed,
\* moved to positive longitudes when `positive`, in the layer's CRS
ExpectedRing(f, rad, positive, angles) ==
    LET raw == Ring(CenterOf(f)[2], CenterOf(f)[1], rad, angles)
        nrm == IF positive THEN makeIdlCrossingsPositive(raw) ELSE raw
    IN  IF Cfg.INPUT.is4326 THEN nrm ELSE TransformAll(nrm)

RawCrosses(f, rad, angles) ==
    hasIdlCrossing(Ring(CenterOf(f)[2], CenterOf(f)[1], rad, angles))

\* the azimuths of the run's rings
RunAngles == AngleLoop(FZero, self.pt_spacing, <<>>)

-----------------------------------------------------------------------------
(* C1: every processed feature is either emitted once or counted once as    *)
(* bad, so that after any prefix of the run emitted + num_bad is the number *)
(* of features processed; a feature that fails (its geometry raises, or a   *)
(* radius does not resolve) yields no output and leaves the run going.      *)
C1_IsolationAndAccounting ==
    /\ \A i \in DOMAIN log : Len(log[i].output) <= 1
    /\ Cardinality(EmittedSet) + self.num_bad = Len(log)
    /\ log # <<>> => Passed
    /\ \A i \in DOMAIN log :
         (~log[i].input.isPoint \/ InnerFails(log[i].input) \/ OuterFails(log[i].input))
             => ~Emitted(i)

\* a feature whose geometry raises is followed by a feature that is emitted
C1_Witness ==
    /\ Len(log) = 2
    /\ ~log[1].input.isPoint /\ ~Emitted(1)
    /\ Emitted(2)
    /\ self.num_bad = 1

(* C2: a fixed outer radius <= 0 aborts the run in prepareAlgorithm with an *)
(* error and no feature is ever processed; a run is Ready or Completed only *)
(* with an outer radius > 0.                                                *)
C2_ConfigurationAbort ==
    /\ state = "Configured" <=> parameters = <<>>
    /\ state = "Aborted" <=> (parameters # <<>> /\ Cfg.OuterRadius.value <= 0)
    /\ state = "Aborted" => log = <<>> /\ Len(errors) = 1 /\ info = <<>>
    /\ Passed => Cfg.OuterRadius.value > 0 /\ self.outer_radius > 0 /\ errors = <<>>

\* the run was given outer radius 0 and 2 features, and is aborted
C2_Witness ==
    /\ state = "Aborted"
    /\ Cfg.OuterRadius.value = 0
    /\ Cfg.INPUT.featureCount = 2

(* C3: with per-feature radii, a point feature is skipped and counted       *)
(* exactly when its inner radius does not evaluate, its outer radius does   *)
(* not evaluate, or its outer radius in metres is <= 0; any other point     *)
(* feature is emitted.                                                      *)
C3_RadiusErrors ==
    Passed =>
        /\ \A i \in DOMAIN log :
             log[i].input.isPoint =>
                (Emitted(i) <=> ~(InnerFails(log[i].input) \/ OuterFails(log[i].input)))
        /\ self.num_bad = Cardinality(SkippedSet)

\* per-feature outer radius: a feature resolving to 0 is skipped, the next
\* one resolves to 2000 and is emitted
C3_Witness ==
    /\ Len(log) = 2
    /\ Cfg.OuterRadius.dyn /\ Cfg.InnerRadius.dyn
    /\ log[1].input.isPoint /\ log[1].input.attrs[1] = <<0>> /\ ~Emitted(1)
    /\ log[2].input.attrs = << <<2000>>, <<1000>> >> /\ Emitted(2)
    /\ self.num_bad = 1

(* C4: every ring of an emitted geometry has DrawingSegments + 1 points,    *)
(* its last point equal to its first, and the two rings of one geometry     *)
(* have the same number of points.                                          *)
C4_RingSizeAndClosure ==
    \A i \in EmittedSet :
        \A k \in DOMAIN Geometry(i).rings :
            LET ring == Geometry(i).rings[k]
            IN  /\ Len(ring) = Cfg.DrawingSegments + 1
                /\ ring[Len(ring)] = ring[1]
                /\ Len(ring) = Len(Geometry(i).rings[1])

(* C5: when the outer or the inner ring of an emitted two-ring donut        *)
(* crosses the antimeridian, both rings are emitted on the positive side.   *)
C5_AntimeridianConsistency ==
    LET angles == RunAngles
    IN  \A i \in EmittedSet :
          LET f == log[i].input
          IN  (Len(Geometry(i).rings) = 2
                  /\ (\/ RawCrosses(f, OuterRadOf(f), angles)
                      \/ RawCrosses(f, InnerRadOf(f), angles)))
              => Geometry(i).rings = << ExpectedRing(f, OuterRadOf(f), TRUE, angles),
                                        ExpectedRing(f, InnerRadOf(f), TRUE, angles) >>

(* C6: an emitted geometry has an inner ring iff the resolved inner radius  *)
(* is not 0, for Polygon and for Line alike: inner radius 0 gives the outer *)
(* ring alone, otherwise the outer ring first and the inner ring second.    *)
C6_DegenerateInnerRadius ==
    LET angles == RunAngles
    IN  \A i \in EmittedSet :
          LET f == log[i].input
              positive == RawCrosses(f, OuterRadOf(f), angles)
          IN  /\ Geometry(i).type =
                    (IF Cfg.ShapeType = 0 THEN "Polygon" ELSE "MultiLineString")
              /\ Geometry(i).rings =
                    (IF InnerRadOf(f) = 0
                     THEN << ExpectedRing(f, OuterRadOf(f), positive, angles) >>
                     ELSE << ExpectedRing(f, OuterRadOf(f), positive, angles),
                             ExpectedRing(f, InnerRadOf(f), positive, angles) >>)

\* a Line run has emitted one feature with inner radius 0 and one without
C6_Witness ==
    /\ Len(log) = 2 /\ Emitted(1) /\ Emitted(2)
    /\ Cfg.ShapeType = 1
    /\ InnerRadOf(log[1].input) = 0 /\ Len(Geometry(1).rings) = 1
    /\ InnerRadOf(log[2].input) # 0 /\ Len(Geometry(2).rings) = 2
    /\ Geometry(2).rings[1] # Geometry(2).rings[2]

(* C7 as stated: every completed run reports the number of features that  *)
(* produced no output out of the number of features processed.              *)
C7_AlwaysReports ==
    state = "Completed" => info = << <<Cardinality(SkippedSet), Len(log)>> >>

(* C7 as amended: a completed run in which at least one feature was dropped *)
(* reports, once, the number of dropped features out of the feature count   *)
(* of the source, every feature of which was processed; a completed run     *)
(* that dropped no feature reports nothing, and nothing is reported before  *)
(* the run completes.                                                       *)
C7_ReportsWhenBad ==
    /\ state # "Completed" => info = <<>>
    /\ state = "Completed" =>
         /\ Len(log) = Cfg.INPUT.featureCount
         /\ info = IF Cardinality(SkippedSet) > 0
                   THEN << <<Cardinality(SkippedSet), Len(log)>> >>
                   ELSE <<>>

\* a run over 2 features, one of them dropped, has completed and reported
C7_Witness ==
    /\ state = "Completed"
    /\ Len(log) = 2 /\ Emitted(1) /\ ~Emitted(2)
    /\ info = << <<1, 2>> >>

(* C8: with ExportInputGeometry an emitted feature carries its input        *)
(* attributes followed by the x and y of its point as given in the layer's  *)
(* CRS; without it the attributes are those of the input.                   *)
C8_ExportOriginalCoordinates ==
    \A i \in EmittedSet :
        LET f == log[i].input
        IN  log[i].output[1].attrs =
                IF Cfg.ExportInputGeometry
                THEN f.attrs \o << <<f.pt[1]>>, <<f.pt[2]>> >>
                ELSE f.attrs

\* an exporting run on a layer that is not in EPSG:4326 has emitted a
\* feature whose point differs from its transform
C8_Witness ==
    /\ Len(log) >= 1 /\ Emitted(1)
    /\ Cfg.ExportInputGeometry /\ ~Cfg.INPUT.is4326
    /\ log[1].input.pt = <<155, 0>>
    /\ geom_to_4326_transform(log[1].input.pt) # log[1].input.pt
    /\ Len(log[1].output[1].attrs) = 4

(* C9: a point feature whose radii resolve, with outer radius > 0 and inner *)
(* radius >= outer radius, is emitted with both rings built from these      *)
(* radii and is not counted as bad.                                         *)
C9_InnerNotBelowOuterAllowed ==
    /\ LET angles == RunAngles
       IN  \A i \in DOMAIN log :
             LET f == log[i].input
             IN  ( /\ f.isPoint /\ ~InnerFails(f) /\ ~OuterFails(f)
                   /\ OuterRadOf(f) > 0 /\ InnerRadOf(f) >= OuterRadOf(f) )
                 => /\ Emitted(i)
                    /\ Len(Geometry(i).rings) = 2
                    /\ LET positive == RawCrosses(f, OuterRadOf(f), angles)
                       IN  Geometry(i).rings =
                               << ExpectedRing(f, OuterRadOf(f), positive, angles),
                                  ExpectedRing(f, InnerRadOf(f), positive, angles) >>
    /\ self.num_bad = Cardinality(SkippedSet)

\* a feature with inner radius 3000 km and outer radius 2000 km was emitted
C9_Witness ==
    /\ Len(log) = 1 /\ Emitted(1)
    /\ OuterRadOf(log[1].input) = 2000000
    /\ InnerRadOf(log[1].input) = 3000000
    /\ self.num_bad = 0

(* C10: a step of the run after prepareAlgorithm changes no field of the    *)
(* algorithm object but num_bad and leaves the parameters alone; within a   *)
(* run equal features get equal results, and every result is the one the    *)
(* feature gets when it is the first of a run with the same configuration.  *)
C10_NoCrossFeatureState ==
    /\ [](\A i, j \in DOMAIN log :
            log[i].input = log[j].input => log[i].output = log[j].output)
    /\ [](\A i \in DOMAIN log :
            log[i].output = ProcessFeature([self EXCEPT !.num_bad = 0], log[i].input).out)
    /\ [][Passed => /\ parameters' = parameters
                    /\ [self' EXCEPT !.num_bad = 0] = [self EXCEPT !.num_bad = 0]]_vars

\* a feature was dropped and counted, and the next one was emitted by an
\* object whose num_bad is no longer 0
C10_Witness ==
    /\ Len(log) = 2
    /\ ~Emitted(1) /\ Emitted(2)
    /\ self.num_bad = 1
    /\ log[2].input.pt = <<170, 0>>

=============================================================================
